---- MODULE Spec2Model ----
(***************************************************************************)
(* The order book replica of cbpro/order_book.py (class OrderBook): the    *)
(* two price-level maps _asks and _bids, the id -> price index price_dict, *)
(* the stored feed sequence _sequence, the last trade _current_ticker, and *)
(* the handlers on_open, on_message, reset_book, add, remove, match and    *)
(* change.  One action is one call of on_open or on_message; the handlers  *)
(* are operators on a book record so that a call is computed as the code   *)
(* computes it.  outcome records what the last call did; applied is the    *)
(* set of sequence numbers whose event was applied since construction, and *)
(* since the set of those applied since the last reset_book.               *)
(*                                                                         *)
(* Spec is the book driven by one thread, constructed with the default     *)
(* log_to = None (line 75 is skipped).  SpecQuery adds the best-price      *)
(* queries, SpecThreads a reader thread that runs beside a reset_book, and *)
(* SpecSink a recorder given as log_to.                                    *)
(***************************************************************************)
EXTENDS Integers, Sequences, FiniteSets, TLC

VARIABLES asks, bids, price_dict, sequence, ticker, outcome, applied, since,
          answer, pc, todo, view, log_to, recorded

\* the book and what is recorded about the calls of on_message and on_open
core == <<asks, bids, price_dict, sequence, ticker, outcome, applied, since>>

\* the answer of the last best-price query
asked == <<answer>>

\* the position of a reset_book in progress, the snapshot entries it has
\* still to add, and what a get_current_book in progress has read
threads == <<pc, todo, view>>

\* the recorder: whether log_to is set, and the last message written to it
recorder == <<log_to, recorded>>

vars == <<core, asked, threads, recorder>>

(***************************************************************************)
(* Bounds of the model.  MaxSeq is the highest sequence number an event    *)
(* may be applied with; MaxOrders is the number of resting orders above    *)
(* which no further open event is fed.                                     *)
(***************************************************************************)
MaxSeq == 3
MaxOrders == 3

(***************************************************************************)
(* Values.  A field a message does not carry is Absent (a string field),   *)
(* NoId (an id field) or NoSeq (the sequence field).  Prices and sizes     *)
(* travel as decimal strings and are stored as Decimal values.             *)
(***************************************************************************)
Uninitialized == -1
NoSeq == -2
NoId == 0
NoTicker == 0
Absent == "absent"
Ids == {1, 2, 3}
Sides == {"buy", "sell"}
WirePrices == {"1.0", "2"}
OpenSize == "2"
TradeSize == "1"
NewSize == "1"

\* Decimal(str): "1" and "1.0" are the same Decimal, as are 1 and Decimal(1).
Decimal(w) ==
  CASE w = "0" -> 0
    [] w = "1" -> 1
    [] w = "1.0" -> 1
    [] w = "2" -> 2
    [] w = "2.0" -> 2

EmptyDict == [k \in {} |-> 0]

\* d[k] = v on a dict or SortedDict
SetItem(d, k, v) == [q \in (DOMAIN d) \cup {k} |-> IF q = k THEN v ELSE d[q]]

\* del d[k]
DelItem(d, k) == [q \in (DOMAIN d) \ {k} |-> d[q]]

Min(S) == CHOOSE x \in S : \A y \in S : x <= y

\* iteration order of a SortedDict: ascending keys
RECURSIVE SortedKeys(_)
SortedKeys(S) ==
  IF S = {} THEN <<>> ELSE <<Min(S)>> \o SortedKeys(S \ {Min(S)})

RECURSIVE ConcatLevels(_, _)
ConcatLevels(d, keys) ==
  IF keys = <<>> THEN <<>> ELSE d[Head(keys)] \o ConcatLevels(d, Tail(keys))

\* every order of one side, in the order "for level in side.items(): for order in level"
SideOrders(d) == ConcatLevels(d, SortedKeys(DOMAIN d))

HasId(level, id) == \E i \in 1..Len(level) : level[i].id = id

FirstIndex(level, id) == Min({i \in 1..Len(level) : level[i].id = id})

(***************************************************************************)
(* The book a handler works on: [asks, bids, price_dict].  A handler       *)
(* returns the book it leaves, whether it raised, and the diagnostics it   *)
(* printed.                                                                *)
(***************************************************************************)
Book == [asks |-> asks, bids |-> bids, price_dict |-> price_dict]

\* the order dict built by add: order.get('order_id') or order['id'], Decimal
\* price, Decimal(order.get('size') or order['remaining_size'])
NewOrder(order) ==
  [id |-> IF order.order_id # NoId THEN order.order_id ELSE order.id,
   side |-> order.side,
   price |-> Decimal(order.price),
   size |-> Decimal(IF order.size # Absent THEN order.size
                                             ELSE order.remaining_size)]

\* get_bids/get_asks followed by "[order]" or ".append(order)"
Appended(d, o) ==
  IF o.price \in DOMAIN d THEN Append(d[o.price], o) ELSE <<o>>

add(bk, order) ==
  IF order.size = Absent /\ order.remaining_size = Absent
  THEN [bk |-> bk, raised |-> TRUE, log |-> {}]
  ELSE LET o == NewOrder(order) IN
       [bk |-> [asks |-> IF o.side = "buy" THEN bk.asks
                         ELSE SetItem(bk.asks, o.price, Appended(bk.asks, o)),
                bids |-> IF o.side = "buy"
                         THEN SetItem(bk.bids, o.price, Appended(bk.bids, o))
                         ELSE bk.bids,
                price_dict |-> SetItem(bk.price_dict, o.id, o.price)],
        raised |-> FALSE, log |-> {}]

\* Stripped with the stripped list always stored, also when it is empty
Stripped_stored(d, price, id) ==
  IF price \notin DOMAIN d THEN d
  ELSE SetItem(d, price, SelectSeq(d[price], LAMBDA o : o.id # id))

\* the list comprehension of remove, then set_bids/set_asks or remove_bids/remove_asks
Stripped(d, price, id) ==
  IF price \notin DOMAIN d THEN d
  ELSE LET rest == SelectSeq(d[price], LAMBDA o : o.id # id) IN
       IF Len(rest) > 0 THEN SetItem(d, price, rest) ELSE DelItem(d, price)

\* remove that looks in the level at the price the event claims
remove_claimed(bk, order_in) ==
  LET order_id == order_in.order_id
      known == order_id \in DOMAIN bk.price_dict
      differs == known /\ Decimal(order_in.price) # bk.price_dict[order_id]
      price == Decimal(order_in.price)
      side == IF order_in.side = "buy" THEN bk.bids ELSE bk.asks
  IN [bk |-> [asks |-> IF order_in.side = "buy" THEN bk.asks
                       ELSE Stripped(bk.asks, price, order_id),
              bids |-> IF order_in.side = "buy"
                       THEN Stripped(bk.bids, price, order_id)
                       ELSE bk.bids,
              price_dict |-> IF known THEN DelItem(bk.price_dict, order_id)
                                      ELSE bk.price_dict],
      found |-> price \in DOMAIN side /\ HasId(side[price], order_id),
      raised |-> FALSE,
      log |-> IF differs THEN {"price_mismatch"} ELSE {}]

remove(bk, order_in) ==
  LET order_id == order_in.order_id
      known == order_id \in DOMAIN bk.price_dict
      differs == known /\ Decimal(order_in.price) # bk.price_dict[order_id]
      price == IF differs THEN bk.price_dict[order_id]
                          ELSE Decimal(order_in.price)
      side == IF order_in.side = "buy" THEN bk.bids ELSE bk.asks
  IN [bk |-> [asks |-> IF order_in.side = "buy" THEN bk.asks
                       ELSE Stripped(bk.asks, price, order_id),
              bids |-> IF order_in.side = "buy"
                       THEN Stripped(bk.bids, price, order_id)
                       ELSE bk.bids,
              price_dict |-> IF known THEN DelItem(bk.price_dict, order_id)
                                      ELSE bk.price_dict],
      found |-> price \in DOMAIN side /\ HasId(side[price], order_id),
      raised |-> FALSE,
      log |-> IF differs THEN {"price_mismatch"} ELSE {}]

\* Matched with the size taken from the order at the head before the maker
\* is moved there
Matched_head(level, maker, size) ==
  LET reduced == [level EXCEPT ![1].size = @ - size]
      new == SelectSeq(reduced, LAMBDA o : o.id = maker)
      other == SelectSeq(reduced, LAMBDA o : o.id # maker)
  IN IF level[1].id # maker THEN new \o other ELSE reduced

\* Matched with the lines 200-201 that the code comments out: an order whose
\* whole size is traded is dropped from the level
Matched_filled(level, maker, size) ==
  LET new == SelectSeq(level, LAMBDA o : o.id = maker)
      other == SelectSeq(level, LAMBDA o : o.id # maker)
      ordered == IF level[1].id # maker THEN new \o other ELSE level
  IN IF ordered[1].size = size THEN Tail(ordered)
     ELSE [ordered EXCEPT ![1].size = @ - size]

\* the level match stores: the maker moved to the head when it is not there,
\* then bids[0]['size'] -= size
Matched(level, maker, size) ==
  LET new == SelectSeq(level, LAMBDA o : o.id = maker)
      other == SelectSeq(level, LAMBDA o : o.id # maker)
      ordered == IF level[1].id # maker THEN new \o other ELSE level
  IN [ordered EXCEPT ![1].size = @ - size]

match(bk, order) ==
  LET size == Decimal(order.size)
      price == Decimal(order.price)
      maker == order.maker_order_id
      side == IF order.side = "buy" THEN bk.bids ELSE bk.asks
  IN IF price \notin DOMAIN side \/ side[price] = <<>>
     THEN [bk |-> bk, raised |-> FALSE, log |-> {}]
     ELSE IF side[price][1].id # maker
             /\ Len(SelectSeq(side[price], LAMBDA o : o.id = maker)) # 1
     THEN [bk |-> bk, raised |-> TRUE, log |-> {"not_in_position"}]
     ELSE [bk |-> IF order.side = "buy"
                  THEN [bk EXCEPT !.bids =
                          SetItem(@, price, Matched(side[price], maker, size))]
                  ELSE [bk EXCEPT !.asks =
                          SetItem(@, price, Matched(side[price], maker, size))],
           raised |-> FALSE,
           log |-> IF side[price][1].id # maker THEN {"not_in_position"}
                                                ELSE {}]

\* get_bid_by_id/get_ask_by_id: the first order with the id, levels ascending
get_by_id(d, id) ==
  LET all == SideOrders(d) IN
  IF HasId(all, id) THEN [found |-> TRUE, order |-> all[FirstIndex(all, id)]]
  ELSE [found |-> FALSE, order |-> [id |-> NoId]]

\* Reprice that adds at new_price whether or not remove found the order
Reprice_always(bk, order) ==
  LET r == remove(bk, [order_id |-> order.order_id, price |-> order.old_price,
                       side |-> order.side, size |-> order.new_size])
      a == add(r.bk, [order_id |-> order.order_id, id |-> NoId,
                      side |-> order.side, price |-> order.new_price,
                      size |-> order.new_size, remaining_size |-> Absent])
  IN [bk |-> a.bk, raised |-> a.raised, log |-> r.log \cup a.log]

\* change with new_price: remove at old_price, and add at new_price if found
Reprice(bk, order) ==
  LET r == remove(bk, [order_id |-> order.order_id, price |-> order.old_price,
                       side |-> order.side, size |-> order.new_size])
  IN IF r.found
     THEN LET a == add(r.bk, [order_id |-> order.order_id, id |-> NoId,
                              side |-> order.side, price |-> order.new_price,
                              size |-> order.new_size,
                              remaining_size |-> Absent])
          IN [bk |-> a.bk, raised |-> a.raised, log |-> r.log \cup a.log]
     ELSE [bk |-> r.bk, raised |-> FALSE,
           log |-> r.log \cup {"ignoring_change"}]

\* change without new_price: the size of the order found by id is set in place
Resize(bk, order) ==
  LET side == IF order.side = "buy" THEN bk.bids ELSE bk.asks
      old == get_by_id(side, order.order_id)
  IN IF ~old.found
     THEN [bk |-> bk, raised |-> FALSE, log |-> {"old_order_not_found"}]
     ELSE IF order.price # Absent /\ Decimal(order.price) # old.order.price
     THEN [bk |-> bk, raised |-> TRUE, log |-> {}]
     ELSE LET price == old.order.price
              fixed == IF order.price = Absent THEN {"fixed_missing_price"}
                                               ELSE {}
          IN IF price \notin DOMAIN side \/ ~HasId(side[price], order.order_id)
             THEN [bk |-> bk, raised |-> FALSE,
                   log |-> fixed \cup {"not_good"}]
             ELSE LET level == [side[price] EXCEPT
                                  ![FirstIndex(side[price], order.order_id)].size
                                     = Decimal(order.new_size)]
                  IN [bk |-> IF order.side = "buy"
                             THEN [bk EXCEPT !.bids = SetItem(@, price, level)]
                             ELSE [bk EXCEPT !.asks = SetItem(@, price, level)],
                      raised |-> FALSE, log |-> fixed]

\* change that lets the KeyError of a missing new_size escape
change_raising(bk, order) ==
  IF order.new_size = Absent
  THEN [bk |-> bk, raised |-> TRUE, log |-> {"new_size_missing"}]
  ELSE IF order.new_price # Absent THEN Reprice(bk, order)
  ELSE Resize(bk, order)

change(bk, order) ==
  IF order.new_size = Absent
  THEN [bk |-> bk, raised |-> FALSE, log |-> {"new_size_missing"}]
  ELSE IF order.new_price # Absent THEN Reprice(bk, order)
  ELSE Resize(bk, order)

RECURSIVE Indexed(_, _)
Indexed(pd, orders) ==
  IF orders = <<>> THEN pd
  ELSE Indexed(SetItem(pd, Head(orders).id, Head(orders).price), Tail(orders))

\* populate_price_dict: a fresh dict filled from the asks, then from the bids
populate_price_dict(bk) ==
  [bk EXCEPT !.price_dict =
     Indexed(EmptyDict, SideOrders(bk.asks) \o SideOrders(bk.bids))]

\* the add calls of reset_book over res['bids'] or res['asks']
RECURSIVE AddAll(_, _, _)
AddAll(bk, entries, side) ==
  IF entries = <<>> THEN bk
  ELSE AddAll(add(bk, [order_id |-> NoId, id |-> Head(entries)[3],
                       side |-> side, price |-> Head(entries)[1],
                       size |-> Head(entries)[2],
                       remaining_size |-> Absent]).bk,
              Tail(entries), side)

\* reset_book without the two "SortedDict()" lines: the snapshot is added to
\* the levels already there
reset_book_kept(st, res) ==
  [st EXCEPT
     !.bk = populate_price_dict(
              AddAll(AddAll(st.bk, res.bids, "buy"), res.asks, "sell")),
     !.sequence = res.sequence]

\* reset_book: both sides emptied, the snapshot's bids then asks added, the
\* sequence set, the index rebuilt; price_dict is not cleared before the adds
reset_book(st, res) ==
  [st EXCEPT
     !.bk = populate_price_dict(
              AddAll(AddAll([asks |-> EmptyDict, bids |-> EmptyDict,
                             price_dict |-> st.bk.price_dict],
                            res.bids, "buy"),
                     res.asks, "sell")),
     !.sequence = res.sequence]

\* on_open that leaves the sequence as it is
on_open_kept(st) == st

\* on_open: the sequence is uninitialized again
on_open(st) == [st EXCEPT !.sequence = Uninitialized]

(***************************************************************************)
(* Messages of the feed.  Every message is a record of all the fields a    *)
(* handler may read; a field the message lacks holds Absent, NoId or NoSeq.*)
(***************************************************************************)
Msg(type, order_id, side, price, size, rem, maker, nsize, nprice, oprice) ==
  [sequence |-> NoSeq, type |-> type, order_id |-> order_id, id |-> NoId,
   side |-> side, price |-> price, size |-> size,
   remaining_size |-> rem, maker_order_id |-> maker,
   new_size |-> nsize, new_price |-> nprice, old_price |-> oprice]

OpenMsgs ==
  {Msg("open", i, s, p, sz[1], sz[2], NoId, Absent, Absent, Absent) :
     i \in Ids, s \in Sides, p \in WirePrices,
     sz \in {<<OpenSize, Absent>>, <<Absent, OpenSize>>}}

DoneMsgs ==
  {Msg("done", i, s, p, Absent, Absent, NoId, Absent, Absent, Absent) :
     i \in Ids, s \in Sides, p \in WirePrices}

MatchMsgs ==
  {Msg("match", NoId, s, p, TradeSize, Absent, i, Absent, Absent, Absent) :
     i \in Ids, s \in Sides, p \in WirePrices}

RepriceMsgs ==
  {Msg("change", i, s, Absent, Absent, Absent, NoId, NewSize, np, op) :
     i \in Ids, s \in Sides, np \in WirePrices, op \in WirePrices}

ResizeMsgs ==
  {Msg("change", i, s, p, Absent, Absent, NoId, NewSize, Absent, Absent) :
     i \in Ids, s \in Sides, p \in WirePrices \cup {Absent}}

\* messages lacking a field their handler needs, or of a type with no handler:
\* an open with no size, a done with no price, a change with no new_size
\* (with and without new_price), a received message
OddMsgs ==
  {Msg("open", 1, "buy", "2", Absent, Absent, NoId, Absent, Absent, Absent),
   Msg("done", 1, "buy", Absent, Absent, Absent, NoId, Absent, Absent, Absent),
   Msg("change", 1, "buy", "1.0", Absent, Absent, NoId, Absent, Absent,
       Absent),
   Msg("change", 1, "buy", Absent, Absent, Absent, NoId, Absent, "2", "1.0"),
   Msg("received", 1, "buy", "2", OpenSize, Absent, NoId, Absent, Absent,
       Absent)}

Bodies ==
  OpenMsgs \cup DoneMsgs \cup MatchMsgs \cup RepriceMsgs \cup ResizeMsgs
    \cup OddMsgs

\* one message of each type, for the paths of on_message that return before
\* the type is read
Unread ==
  {Msg("open", 1, "buy", "1.0", OpenSize, Absent, NoId, Absent, Absent,
       Absent),
   Msg("done", 1, "buy", "1.0", Absent, Absent, NoId, Absent, Absent, Absent),
   Msg("match", NoId, "sell", "2", TradeSize, Absent, 2, Absent, Absent,
       Absent),
   Msg("change", 2, "sell", Absent, Absent, Absent, NoId, NewSize, "2",
       "1.0"),
   Msg("received", 1, "buy", "2", OpenSize, Absent, NoId, Absent, Absent,
       Absent)}

(***************************************************************************)
(* Snapshots get_product_order_book may return: levels of                  *)
(* <<price, size, id>> entries and the sequence the snapshot was taken at. *)
(***************************************************************************)
Snapshots ==
  {[bids |-> <<<<"1.0", "2", 1>>, <<"1.0", "2", 2>>, <<"1.0", "2", 3>>>>,
    asks |-> <<>>, sequence |-> 0],
   [bids |-> <<>>, asks |-> <<>>, sequence |-> 1],
   [bids |-> <<<<"1", "2", 1>>>>, asks |-> <<<<"2.0", "2", 2>>>>,
    sequence |-> 2],
   [bids |-> <<<<"1", "1", 3>>>>,
    asks |-> <<<<"2", "2", 2>>, <<"2", "1", 1>>>>, sequence |-> 5]}

(***************************************************************************)
(* on_message.  st is [bk, sequence, ticker]; the result adds what the     *)
(* call did: kind (load, stale, gap, applied, raised), the number of       *)
(* reset_book calls, the handler that ran, the diagnostics and, for a gap, *)
(* the arguments of on_sequence_gap.                                       *)
(***************************************************************************)
State == [bk |-> Book, sequence |-> sequence, ticker |-> ticker]

\* message.get('sequence', -1)
get_sequence(message) ==
  IF message.sequence = NoSeq THEN -1 ELSE message.sequence

\* Classify with "<" for "<=": a message repeating the stored sequence is
\* taken as the next one
Classify_strict(stored, seq) ==
  IF stored = Uninitialized THEN "load"
  ELSE IF seq < stored THEN "stale"
  ELSE IF seq > stored + 1 THEN "gap"
  ELSE "next"

\* the tests of lines 78-86 on the stored and the message's sequence
Classify(stored, seq) ==
  IF stored = Uninitialized THEN "load"
  ELSE IF seq <= stored THEN "stale"
  ELSE IF seq > stored + 1 THEN "gap"
  ELSE "next"

\* the dispatch on message['type'], lines 88-101
Dispatch(st, message) ==
  LET t == message.type IN
  IF t = "open"
  THEN LET r == add(st.bk, message) IN
       [bk |-> r.bk, ticker |-> st.ticker, raised |-> r.raised,
        handler |-> "add", log |-> r.log]
  ELSE IF t = "done" /\ message.price # Absent
  THEN LET r == remove(st.bk, message) IN
       [bk |-> r.bk, ticker |-> st.ticker, raised |-> r.raised,
        handler |-> "remove", log |-> r.log]
  ELSE IF t = "match"
  THEN LET r == match(st.bk, message) IN
       [bk |-> r.bk,
        ticker |-> IF r.raised THEN st.ticker ELSE message.maker_order_id,
        raised |-> r.raised, handler |-> "match", log |-> r.log]
  ELSE IF t = "change"
  THEN LET r == change(st.bk, message) IN
       [bk |-> r.bk, ticker |-> st.ticker, raised |-> r.raised,
        handler |-> "change", log |-> r.log]
  ELSE [bk |-> st.bk, ticker |-> st.ticker, raised |-> FALSE,
        handler |-> "none", log |-> {}]

\* what a call that only reloads the book reports
Reloaded(st, kind, gap) ==
  [bk |-> st.bk, sequence |-> st.sequence, ticker |-> st.ticker,
   kind |-> kind, loads |-> 1, handler |-> "none", log |-> {}, gap |-> gap]

\* on_sequence_gap that resumes at the end of the gap
on_sequence_gap_end(st, gap_start, gap_end, res) ==
  Reloaded([reset_book(st, res) EXCEPT !.sequence = gap_end], "gap",
           <<gap_start, gap_end>>)

on_sequence_gap(st, gap_start, gap_end, res) ==
  Reloaded(reset_book(st, res), "gap", <<gap_start, gap_end>>)

\* Applied with the sequence advanced before the handler runs
Applied_early(st, seq, d) ==
  [bk |-> d.bk, sequence |-> seq, ticker |-> d.ticker,
   kind |-> IF d.raised THEN "raised" ELSE "applied",
   loads |-> 0, handler |-> d.handler, log |-> d.log, gap |-> <<>>]

\* lines 88-103: the handler, then self._sequence = sequence unless it raised
Applied(st, seq, d) ==
  [bk |-> d.bk,
   sequence |-> IF d.raised THEN st.sequence ELSE seq,
   ticker |-> d.ticker,
   kind |-> IF d.raised THEN "raised" ELSE "applied",
   loads |-> 0, handler |-> d.handler, log |-> d.log, gap |-> <<>>]

on_message(st, message, res) ==
  LET seq == get_sequence(message)
      class == Classify(st.sequence, seq)
  IN IF class = "load" THEN Reloaded(reset_book(st, res), "load", <<>>)
     ELSE IF class = "stale"
     THEN [bk |-> st.bk, sequence |-> st.sequence, ticker |-> st.ticker,
           kind |-> "stale", loads |-> 0, handler |-> "none", log |-> {},
           gap |-> <<>>]
     ELSE IF class = "gap" THEN on_sequence_gap(st, st.sequence, seq, res)
     ELSE Applied(st, seq, Dispatch(st, message))

(***************************************************************************)
(* The state machine.                                                      *)
(***************************************************************************)
NoOutcome ==
  [kind |-> "init", loads |-> 0, handler |-> "none", log |-> {},
   gap |-> <<>>]

\* no query has been answered
NoAnswer == [query |-> "none", raised |-> FALSE, value |-> 0]

\* no get_current_book has started
NoView == [at |-> "idle", sequence |-> Uninitialized, asks |-> <<>>,
           bids |-> <<>>]

\* no reset_book is in progress
NoTodo == [entries |-> <<>>, sequence |-> Uninitialized]

\* the object after __init__, whatever log_to it was given
Constructed ==
  /\ asks = EmptyDict
  /\ bids = EmptyDict
  /\ price_dict = EmptyDict
  /\ sequence = Uninitialized
  /\ ticker = NoTicker
  /\ outcome = NoOutcome
  /\ applied = {}
  /\ since = {}
  /\ answer = NoAnswer
  /\ pc = "idle"
  /\ todo = NoTodo
  /\ view = NoView
  /\ recorded = NoSeq

\* OrderBook(): log_to is None
Init == Constructed /\ log_to = FALSE

Resting(bk) == Len(SideOrders(bk.asks)) + Len(SideOrders(bk.bids))

\* the sequence numbers the feed may carry: none, or 0 .. MaxSeq + 2
FeedSeqs == {NoSeq} \cup (0..(MaxSeq + 2))

\* the messages fed in the current state: every body when the message is
\* the next one (and within the bounds), one body per type otherwise
Fed(seq) ==
  IF Classify(sequence, IF seq = NoSeq THEN -1 ELSE seq) = "next"
  THEN {m \in Bodies :
          /\ seq <= MaxSeq
          /\ m.type = "open" => Resting(Book) < MaxOrders}
  ELSE Unread

\* the snapshots the call may fetch: any when it reloads, none otherwise
Fetched(seq) ==
  IF Classify(sequence, IF seq = NoSeq THEN -1 ELSE seq) \in {"load", "gap"}
  THEN Snapshots
  ELSE {[bids |-> <<>>, asks |-> <<>>, sequence |-> 0]}

\* the state a call of on_message that answered r leaves
Took(r) ==
  /\ asks' = r.bk.asks
  /\ bids' = r.bk.bids
  /\ price_dict' = r.bk.price_dict
  /\ sequence' = r.sequence
  /\ ticker' = r.ticker
  /\ outcome' = [kind |-> r.kind, loads |-> r.loads, handler |-> r.handler,
                 log |-> r.log, gap |-> r.gap]
  /\ applied' = IF r.kind = "applied" THEN applied \cup {r.sequence}
                                      ELSE applied
  /\ since' = IF r.kind = "applied" THEN since \cup {r.sequence}
              ELSE IF r.loads > 0 THEN {} ELSE since

Deliver(message, res) ==
  \E r \in {on_message(State, message, res)} : Took(r)

OnMessage ==
  \E seq \in FeedSeqs : \E body \in Fed(seq) : \E res \in Fetched(seq) :
    /\ Deliver([body EXCEPT !.sequence = seq], res)
    /\ UNCHANGED <<asked, threads, recorder>>

OnOpen ==
  \E r \in {on_open(State)} :
    /\ sequence' = r.sequence
    /\ asks' = r.bk.asks
    /\ bids' = r.bk.bids
    /\ price_dict' = r.bk.price_dict
    /\ ticker' = r.ticker
    /\ outcome' = [NoOutcome EXCEPT !.kind = "on_open"]
    /\ UNCHANGED <<applied, since>>
    /\ UNCHANGED <<asked, threads, recorder>>

Next == OnMessage \/ OnOpen

Spec == Init /\ [][Next]_vars

(***************************************************************************)
(* The best-price queries.  In SpecQuery the feed delivers, one sequence   *)
(* number after the other, open, match and done events of order 1, and     *)
(* get_bid and get_ask may be called between any two of them.              *)
(***************************************************************************)
NoPrice == 0

Max(S) == CHOOSE x \in S : \A y \in S : x >= y

\* self._bids.peekitem(-1)[0]: the largest key; IndexError on an empty side
get_bid(bk) ==
  IF DOMAIN bk.bids = {} THEN [raised |-> TRUE, value |-> NoPrice]
  ELSE [raised |-> FALSE, value |-> Max(DOMAIN bk.bids)]

\* self._asks.peekitem(0)[0]: the smallest key; IndexError on an empty side
get_ask(bk) ==
  IF DOMAIN bk.asks = {} THEN [raised |-> TRUE, value |-> NoPrice]
  ELSE [raised |-> FALSE, value |-> Min(DOMAIN bk.asks)]

QueryBodies ==
  {m \in OpenMsgs \cup MatchMsgs \cup DoneMsgs :
     /\ m.order_id = 1 \/ m.maker_order_id = 1
     /\ m.type = "open" => m.size # Absent}

\* on_message with the message that follows the stored sequence (the first
\* message when the sequence is uninitialized)
OnEvent ==
  /\ sequence <= MaxSeq
  /\ \E body \in QueryBodies : \E res \in Snapshots :
       Deliver([body EXCEPT !.sequence = sequence + 1], res)
  /\ answer' = NoAnswer
  /\ UNCHANGED <<threads, recorder>>

GetBid ==
  /\ \E r \in {get_bid(Book)} :
       answer' = [query |-> "get_bid", raised |-> r.raised,
                  value |-> r.value]
  /\ UNCHANGED <<core, threads, recorder>>

GetAsk ==
  /\ \E r \in {get_ask(Book)} :
       answer' = [query |-> "get_ask", raised |-> r.raised,
                  value |-> r.value]
  /\ UNCHANGED <<core, threads, recorder>>

NextQuery == OnEvent \/ GetBid \/ GetAsk

SpecQuery == Init /\ [][NextQuery]_vars

(***************************************************************************)
(* Threads.  on_message runs on the thread of the websocket client and the *)
(* queries on the caller's; the class holds no lock.  In SpecThreads a     *)
(* reset_book (called for a first message or a gap) runs statement by      *)
(* statement, and a get_current_book on another thread reads the sequence, *)
(* the asks and the bids in three steps between them.                      *)
(***************************************************************************)
\* what get_current_book appends for the orders of one side
Export(d) ==
  LET all == SideOrders(d)
  IN [i \in 1..Len(all) |-> <<all[i].price, all[i].size, all[i].id>>]

\* the entries of one side of a snapshot, each with its side
Tagged(entries, side) == [i \in 1..Len(entries) |-> <<side, entries[i]>>]

\* line 42
ClearAsks ==
  /\ pc = "idle"
  /\ asks' = EmptyDict
  /\ pc' = "cleared_asks"
  /\ UNCHANGED <<bids, price_dict, sequence, ticker, outcome, applied, since>>
  /\ UNCHANGED <<todo, view, asked, recorder>>

\* line 43
ClearBids ==
  /\ pc = "cleared_asks"
  /\ bids' = EmptyDict
  /\ pc' = "cleared"
  /\ UNCHANGED <<asks, price_dict, sequence, ticker, outcome, applied, since>>
  /\ UNCHANGED <<todo, view, asked, recorder>>

\* line 44
Fetch ==
  /\ pc = "cleared"
  /\ \E res \in Snapshots :
       todo' = [entries |-> Tagged(res.bids, "buy") \o Tagged(res.asks, "sell"),
                sequence |-> res.sequence]
  /\ pc' = "fetched"
  /\ UNCHANGED <<core, view, asked, recorder>>

\* one self.add of the loops of lines 45-58
AddNext ==
  /\ pc = "fetched"
  /\ todo.entries # <<>>
  /\ \E r \in {add(Book, [order_id |-> NoId, id |-> Head(todo.entries)[2][3],
                          side |-> Head(todo.entries)[1],
                          price |-> Head(todo.entries)[2][1],
                          size |-> Head(todo.entries)[2][2],
                          remaining_size |-> Absent])} :
       /\ asks' = r.bk.asks
       /\ bids' = r.bk.bids
       /\ price_dict' = r.bk.price_dict
  /\ todo' = [todo EXCEPT !.entries = Tail(@)]
  /\ UNCHANGED <<sequence, ticker, outcome, applied, since>>
  /\ UNCHANGED <<pc, view, asked, recorder>>

\* line 59
SetSequence ==
  /\ pc = "fetched"
  /\ todo.entries = <<>>
  /\ sequence' = todo.sequence
  /\ pc' = "sequenced"
  /\ UNCHANGED <<asks, bids, price_dict, ticker, outcome, applied, since>>
  /\ UNCHANGED <<todo, view, asked, recorder>>

\* line 60, and the return of reset_book and of on_message
Reindex ==
  /\ pc = "sequenced"
  /\ price_dict' = populate_price_dict(Book).price_dict
  /\ pc' = "idle"
  /\ todo' = NoTodo
  /\ outcome' = [NoOutcome EXCEPT !.kind = "load", !.loads = 1]
  /\ since' = {}
  /\ UNCHANGED <<asks, bids, sequence, ticker, applied>>
  /\ UNCHANGED <<view, asked, recorder>>

\* get_current_book, lines 309-313
ReadSequence ==
  /\ view.at \in {"idle", "returned"}
  /\ view' = [at |-> "asks", sequence |-> sequence, asks |-> <<>>,
              bids |-> <<>>]
  /\ UNCHANGED <<core, pc, todo, asked, recorder>>

\* get_current_book, lines 314-322
ReadAsks ==
  /\ view.at = "asks"
  /\ view' = [view EXCEPT !.at = "bids", !.asks = Export(asks)]
  /\ UNCHANGED <<core, pc, todo, asked, recorder>>

\* get_current_book, lines 323-333
ReadBids ==
  /\ view.at = "bids"
  /\ view' = [view EXCEPT !.at = "returned", !.bids = Export(bids)]
  /\ UNCHANGED <<core, pc, todo, asked, recorder>>

NextThreads ==
  \/ ClearAsks \/ ClearBids \/ Fetch \/ AddNext \/ SetSequence \/ Reindex
  \/ ReadSequence \/ ReadAsks \/ ReadBids

SpecThreads == Init /\ [][NextThreads]_vars

(***************************************************************************)
(* The recorder.  In SpecSink the book is constructed with a log_to, and   *)
(* the pickle.dump of line 75 either writes the message or raises.         *)
(***************************************************************************)
\* OrderBook(log_to=f)
InitSink == Constructed /\ log_to = TRUE

\* on_message of an object whose log_to is sink, when the write of line 75
\* succeeds (ok) or raises: offered tells whether pickle.dump was called,
\* written whether it returned, result what the call did
on_message_logged(st, message, res, sink, ok) ==
  IF sink /\ ~ok
  THEN [offered |-> TRUE, written |-> FALSE,
        result |-> [bk |-> st.bk, sequence |-> st.sequence,
                    ticker |-> st.ticker, kind |-> "raised", loads |-> 0,
                    handler |-> "none", log |-> {"sink_failed"},
                    gap |-> <<>>]]
  ELSE [offered |-> sink, written |-> sink,
        result |-> on_message(st, message, res)]

OnRecorded ==
  /\ sequence <= MaxSeq
  /\ \E body \in QueryBodies : \E res \in Snapshots : \E ok \in BOOLEAN :
       \E l \in {on_message_logged(State,
                                   [body EXCEPT !.sequence = sequence + 1],
                                   res, log_to, ok)} :
         /\ Took(l.result)
         /\ recorded' = IF l.written THEN sequence + 1 ELSE recorded
  /\ UNCHANGED <<log_to, asked, threads>>

NextSink == OnRecorded

SpecSink == InitSink /\ [][NextSink]_vars

(***************************************************************************)
(* Properties.                                                             *)
(***************************************************************************)
AllOrders == SideOrders(asks) \o SideOrders(bids)

RestingIds == {AllOrders[i].id : i \in 1..Len(AllOrders)}

\* the prices of the levels, of either side, that hold an order with the id
LevelsOf(id) ==
  {p \in DOMAIN asks : HasId(asks[p], id)}
    \cup {p \in DOMAIN bids : HasId(bids[p], id)}

\* C1: in every reachable state an id is a key of price_dict exactly when an
\* order with that id is stored in a price level, and price_dict[id] is the
\* price of the level that holds it (violated: a done naming the wrong side
\* deletes the index entry of an order that stays in the book).
C1_IndexConsistent ==
  /\ DOMAIN price_dict = RestingIds
  /\ \A id \in DOMAIN price_dict : LevelsOf(id) = {price_dict[id]}

\* C2 as claimed: every applied event has the stored sequence + 1, the
\* stored sequence is left alone when the handler raises, and no sequence
\* number is applied twice (violated: after a reload whose snapshot sequence
\* is lower than the stored one, the numbers above it are applied again).
C2_NeverAppliedTwice ==
  [][/\ outcome'.kind = "applied" =>
          /\ sequence # Uninitialized
          /\ sequence' = sequence + 1
          /\ sequence' \notin applied
     /\ outcome'.kind = "raised" => sequence' = sequence]_vars

\* C2 as amended: every applied event has the stored sequence + 1, the
\* stored sequence is left alone when the handler raises, and no sequence
\* number is applied twice between two snapshot reloads.
C2_AppliedOncePerReload ==
  [][/\ outcome'.kind = "applied" =>
          /\ sequence # Uninitialized
          /\ sequence' = sequence + 1
          /\ sequence' \notin since
          /\ \A q \in since : q < sequence'
     /\ outcome'.kind = "raised" => sequence' = sequence]_vars

\* events 1 and 2 have been applied since the last reload, and event 3 was
\* applied before it: the reload lowered the stored sequence
C2_Witness ==
  /\ outcome.kind = "applied"
  /\ since = {1, 2}
  /\ 3 \in applied

\* the answer of on_message to a message it ignores
Ignored ==
  [bk |-> Book, sequence |-> sequence, ticker |-> ticker, kind |-> "stale",
   loads |-> 0, handler |-> "none", log |-> {}, gap |-> <<>>]

\* a fetch that is never made
NoFetch == [bids |-> <<>>, asks |-> <<>>, sequence |-> 0]

\* C3: when the sequence is initialized, a message whose sequence is at most
\* the stored one, or that has none, leaves the levels, price_dict, the
\* stored sequence and the ticker unchanged, loads no snapshot and raises no
\* error, whatever its type and fields.
C3_StaleIgnored ==
  sequence # Uninitialized =>
    \A seq \in FeedSeqs : \A body \in Bodies \cup Unread :
      (seq = NoSeq \/ seq <= sequence) =>
        on_message(State, [body EXCEPT !.sequence = seq], NoFetch) = Ignored

\* a message was ignored in a state with resting orders and a last trade
C3_Witness ==
  /\ outcome.kind = "stale"
  /\ sequence = 3
  /\ ticker # NoTicker
  /\ DOMAIN price_dict # {}

\* the order a snapshot entry <<price, size, id>> stands for
SnapshotOrder(e, side) ==
  [id |-> e[3], side |-> side, price |-> Decimal(e[1]),
   size |-> Decimal(e[2])]

\* the levels of one side of a snapshot: each price with its entries, in
\* snapshot order
SnapshotLevels(entries, side) ==
  [p \in {Decimal(entries[i][1]) : i \in 1..Len(entries)} |->
     LET at == SelectSeq(entries, LAMBDA e : Decimal(e[1]) = p)
     IN [i \in 1..Len(at) |-> SnapshotOrder(at[i], side)]]

\* the book that holds exactly the entries of a snapshot
SnapshotBook(res) ==
  LET all == res.bids \o res.asks IN
  [asks |-> SnapshotLevels(res.asks, "sell"),
   bids |-> SnapshotLevels(res.bids, "buy"),
   price_dict |->
     [id \in {all[i][3] : i \in 1..Len(all)} |->
        Decimal((CHOOSE e \in {all[i] : i \in 1..Len(all)} : e[3] = id)[1])]]

\* what on_message answers when it only reloads the book from res
Reload(res, kind, gap) ==
  [bk |-> SnapshotBook(res), sequence |-> res.sequence, ticker |-> ticker,
   kind |-> kind, loads |-> 1, handler |-> "none", log |-> {}, gap |-> gap]

\* st after on_message(message) with the fetch returning res
After(st, message, res) ==
  LET r == on_message(st, message, res) IN
  [bk |-> r.bk, sequence |-> r.sequence, ticker |-> r.ticker]

\* C4: when the stored sequence is s and a message with sequence > s + 1
\* arrives, on_message reloads the snapshot exactly once, runs no handler
\* on the message and leaves the stored sequence at the snapshot's.  From
\* the stored sequence 0 the messages 1, 2 and 3 are each handed to their
\* handler without a reload and advance the stored sequence when it
\* returns; after them a message 5 reloads once, and a message 6 that
\* follows is classified against the snapshot's sequence.
C4_GapReloadsOnce ==
  /\ sequence # Uninitialized =>
       \A seq \in FeedSeqs \ {NoSeq} : \A body \in Unread :
         \A res \in Snapshots :
           seq > sequence + 1 =>
             /\ on_message(State, [body EXCEPT !.sequence = seq], res)
                  = Reload(res, "gap", <<sequence, seq>>)
             /\ (since = {1, 2, 3} /\ seq = 5) =>
                  \A next \in Unread :
                    on_message(
                      After(State, [body EXCEPT !.sequence = seq], res),
                      [next EXCEPT !.sequence = 6], NoFetch).kind
                      \in IF res.sequence = 5 THEN {"applied", "raised"}
                          ELSE IF res.sequence >= 6 THEN {"stale"}
                          ELSE {"gap"}
  /\ (sequence \in 0..2 /\ since = 1..sequence) =>
       \A body \in Bodies :
         \A r \in {on_message(State, [body EXCEPT !.sequence = sequence + 1],
                              NoFetch)} :
           /\ r.loads = 0
           /\ r.kind \in {"applied", "raised"}
           /\ r.kind = "applied" => r.sequence = sequence + 1

\* events 1, 2 and 3 were applied and message 5 has made on_message reload
\* the book, once, from the snapshot taken at sequence 2
C4_Witness ==
  /\ outcome.kind = "gap"
  /\ outcome.gap = <<3, 5>>
  /\ outcome.loads = 1
  /\ applied = {1, 2, 3}
  /\ sequence = 2
  /\ Book = SnapshotBook(CHOOSE res \in Snapshots : res.sequence = 2)

\* C5: whenever the sequence is uninitialized (after construction and after
\* every on_open) the next message, whatever its sequence and type, loads
\* the snapshot exactly once, sets the stored sequence to the snapshot's and
\* is discarded: no handler runs on it.
C5_UninitializedLoads ==
  /\ outcome.kind \in {"init", "on_open"} => sequence = Uninitialized
  /\ sequence = Uninitialized =>
       \A seq \in FeedSeqs : \A body \in Unread : \A res \in Snapshots :
         on_message(State, [body EXCEPT !.sequence = seq], res)
           = Reload(res, "load", <<>>)

\* the book was loaded again after events had been applied: on_open had made
\* the sequence uninitialized
C5_Witness ==
  /\ outcome.kind = "load"
  /\ applied = {1, 2}
  /\ sequence = 2
  /\ ticker # NoTicker

\* C6: from any state reset_book leaves exactly the snapshot's entries in the
\* levels (in snapshot order, at their side and price), exactly the
\* snapshot's ids in price_dict, and the snapshot's sequence; a second
\* reset_book with the same snapshot changes nothing.
C6_ResetReplaces ==
  /\ \A res \in Snapshots :
       /\ reset_book(State, res).bk = SnapshotBook(res)
       /\ reset_book(State, res).sequence = res.sequence
       /\ reset_book(reset_book(State, res), res) = reset_book(State, res)
  /\ outcome.loads > 0 =>
       \E res \in Snapshots :
         Book = SnapshotBook(res) /\ sequence = res.sequence

\* the empty snapshot taken at sequence 1 has replaced a book on which
\* events up to 3 had been applied
C6_Witness ==
  /\ outcome.kind = "gap"
  /\ outcome.gap[1] = 3
  /\ sequence = 1
  /\ DOMAIN price_dict = {} /\ DOMAIN asks = {} /\ DOMAIN bids = {}

\* C7: for any book and any order O, add(O) followed by remove with O's side,
\* id and price finds the order and restores the levels and price_dict
\* (violated when O's id is already resting: remove strips every order with
\* that id from the level and deletes the index entry).
C7_AddRemoveInverse ==
  \A O \in OpenMsgs :
    /\ ~add(Book, O).raised
    /\ remove(add(Book, O).bk, O).found
    /\ remove(add(Book, O).bk, O).bk = Book

\* C8: in every reachable state every price key of the bid side and of the
\* ask side maps to a non-empty list of orders.
C8_NoEmptyLevel ==
  /\ \A p \in DOMAIN asks : Len(asks[p]) > 0
  /\ \A p \in DOMAIN bids : Len(bids[p]) > 0

\* a done event, the only event applied since construction, has stripped the
\* one bid of the snapshot taken at sequence 2: the bid level is gone
C8_Witness ==
  /\ outcome.kind = "applied"
  /\ outcome.handler = "remove"
  /\ applied = {3}
  /\ DOMAIN bids = {}
  /\ DOMAIN asks = {2}

\* C9: in every reachable state each order id occurs in at most one slot of
\* the whole book (violated: an open event repeating a resting id is
\* appended as a second order).
C9_OneSlotPerId ==
  \A i, j \in 1..Len(AllOrders) :
    AllOrders[i].id = AllOrders[j].id => i = j

\* the levels of the side a match message names
MatchedSide(bk, m) == IF m.side = "buy" THEN bk.bids ELSE bk.asks

\* C10: when the maker of a match rests once in the matched level and not at
\* its head, match moves it to the head, keeps the other orders in their
\* order, and reduces the maker's size only; every other level, the other
\* side and price_dict stay as they were.
C10_MakerMovedToHead ==
  \A m \in MatchMsgs :
    LET side == MatchedSide(Book, m)
        p == Decimal(m.price)
    IN (/\ p \in DOMAIN side
        /\ Cardinality({i \in 1..Len(side[p]) :
                          side[p][i].id = m.maker_order_id}) = 1
        /\ side[p][1].id # m.maker_order_id) =>
         LET k == FirstIndex(side[p], m.maker_order_id)
             r == match(Book, m)
             after == MatchedSide(r.bk, m)
         IN /\ ~r.raised
            /\ DOMAIN after = DOMAIN side
            /\ after[p] =
                 <<[side[p][k] EXCEPT !.size = @ - Decimal(m.size)]>>
                   \o SubSeq(side[p], 1, k - 1)
                   \o SubSeq(side[p], k + 1, Len(side[p]))
            /\ \A q \in DOMAIN side \ {p} : after[q] = side[q]
            /\ m.side = "buy" => r.bk.asks = asks
            /\ m.side = "sell" => r.bk.bids = bids
            /\ r.bk.price_dict = price_dict

\* the level [1, 2, 3] of the snapshot taken at sequence 0, matched against
\* maker 2, is [2, 1, 3] with only the size of 2 reduced
C10_Witness ==
  /\ outcome.kind = "applied"
  /\ "not_in_position" \in outcome.log
  /\ applied = {1}
  /\ DOMAIN bids = {1}
  /\ [i \in 1..Len(bids[1]) |-> bids[1][i].id] = <<2, 1, 3>>
  /\ [i \in 1..Len(bids[1]) |-> bids[1][i].size] = <<1, 2, 2>>

\* the ids of a level, in FIFO order
LevelIds(level) == [i \in 1..Len(level) |-> level[i].id]

\* the ids resting in the levels of a book
BookIds(bk) ==
  LET all == SideOrders(bk.asks) \o SideOrders(bk.bids)
  IN {all[i].id : i \in 1..Len(all)}

\* C11: a match never removes an order or a price level and never changes
\* price_dict: every level holds the same ids after it as before, on both
\* sides; when the match is applied to a level, the maker (the order moved
\* to or found at the head) has its previous size minus the traded size,
\* also when that is zero, and every other order keeps its size; among
\* the handlers only remove, run for a done event, takes an id out of the
\* levels.
C11_MatchKeepsOrders ==
  /\ \A m \in MatchMsgs : \A r \in {match(Book, m)} :
       LET side == MatchedSide(Book, m)
           after == MatchedSide(r.bk, m)
           p == Decimal(m.price)
       IN /\ r.bk.price_dict = price_dict
          /\ m.side = "buy" => r.bk.asks = asks
          /\ m.side = "sell" => r.bk.bids = bids
          /\ DOMAIN after = DOMAIN side
          /\ \A q \in DOMAIN side \ {p} : after[q] = side[q]
          /\ p \in DOMAIN side =>
               /\ Len(after[p]) = Len(side[p])
               /\ \A id \in Ids :
                    Cardinality({i \in 1..Len(side[p]) : side[p][i].id = id})
                      = Cardinality({i \in 1..Len(after[p]) :
                                       after[p][i].id = id})
               /\ IF r.raised THEN after[p] = side[p]
                  ELSE LET k == FirstIndex(side[p], m.maker_order_id) IN
                       /\ after[p][1] =
                            [side[p][k] EXCEPT !.size = @ - Decimal(m.size)]
                       /\ Tail(after[p]) =
                            SubSeq(side[p], 1, k - 1)
                              \o SubSeq(side[p], k + 1, Len(side[p]))
  /\ \A body \in Bodies : \A d \in {Dispatch(State, body)} :
       BookIds(Book) \ BookIds(d.bk) # {} => d.handler = "remove"

\* two matches have taken the whole size of bid 1, which still rests at the
\* head of its level with size 0 and is still indexed
C11_Witness ==
  /\ outcome.kind = "applied"
  /\ outcome.handler = "match"
  /\ applied = {1, 2}
  /\ 1 \in DOMAIN bids
  /\ LevelIds(bids[1]) = <<1, 2, 3>>
  /\ bids[1][1].size = 0
  /\ 1 \in DOMAIN price_dict

\* the number of orders of a level that carry the id
Occurrences(level, id) ==
  Cardinality({i \in 1..Len(level) : level[i].id = id})

\* C12: a match that is the next event and names a maker not found exactly
\* once in a non-empty matched level is skipped: on_message raises nothing,
\* leaves the levels and price_dict as they were and advances the stored
\* sequence, so that the event after it is the next one and not a gap
\* (violated: the assert of match raises, and the sequence stays behind).
C12_AmbiguousMatchSkipped ==
  sequence \in 0..MaxSeq =>
    \A m \in MatchMsgs :
      LET side == MatchedSide(Book, m)
          p == Decimal(m.price)
      IN (p \in DOMAIN side /\ Occurrences(side[p], m.maker_order_id) # 1) =>
           \A r \in {on_message(State, [m EXCEPT !.sequence = sequence + 1],
                                NoFetch)} :
             /\ r.kind = "applied"
             /\ r.bk = Book
             /\ r.sequence = sequence + 1
             /\ Classify(r.sequence, sequence + 2) = "next"

\* C13: a change with new_price whose remove finds the order (at the indexed
\* price when the id is indexed, at old_price otherwise, on the side the
\* event names) strips the id from that level and appends the order, with
\* new_size, at the tail of the level at new_price, and price_dict[id]
\* becomes new_price; every other level and the other side are untouched.
\* When the id rests nowhere in the book the levels and price_dict are left
\* exactly as they were.  Neither case raises.
C13_RepriceOnlyResting ==
  \A m \in RepriceMsgs : \A r \in {change(Book, m)} :
    LET id == m.order_id
        side == MatchedSide(Book, m)
        after == MatchedSide(r.bk, m)
        np == Decimal(m.new_price)
        q == IF id \in DOMAIN price_dict THEN price_dict[id]
             ELSE Decimal(m.old_price)
        found == q \in DOMAIN side /\ HasId(side[q], id)
    IN /\ ~r.raised
       /\ found =>
            LET rest == SelectSeq(side[q], LAMBDA o : o.id # id)
                base == IF np = q THEN rest
                        ELSE IF np \in DOMAIN side THEN side[np] ELSE <<>>
                gone == IF rest = <<>> THEN {q} ELSE {}
            IN /\ after[np] =
                    Append(base, [id |-> id, side |-> m.side, price |-> np,
                                  size |-> Decimal(m.new_size)])
               /\ DOMAIN after = ((DOMAIN side) \ gone) \cup {np}
               /\ q # np /\ rest # <<>> => after[q] = rest
               /\ \A x \in DOMAIN side \ {q, np} : after[x] = side[x]
               /\ m.side = "buy" => r.bk.asks = asks
               /\ m.side = "sell" => r.bk.bids = bids
               /\ r.bk.price_dict = SetItem(price_dict, id, np)
               /\ "ignoring_change" \notin r.log
       /\ id \notin RestingIds =>
            /\ r.bk = Book
            /\ "ignoring_change" \in r.log

\* two changes have re-priced bids 1 and 2 of the snapshot taken at sequence
\* 0 from 1 to 2: they rest at 2 in the order of the changes, with the new
\* size, and bid 3 is alone at 1
C13_Witness ==
  /\ outcome.kind = "applied"
  /\ outcome.handler = "change"
  /\ applied = {1, 2}
  /\ DOMAIN bids = {1, 2}
  /\ LevelIds(bids[2]) = <<1, 2>>
  /\ LevelIds(bids[1]) = <<3>>
  /\ bids[2][2].size = Decimal(NewSize)
  /\ price_dict[1] = 2 /\ price_dict[2] = 2

\* C14: a change without new_price for an order resting on the side the
\* event names sets the size of that order (the first with the id, levels
\* ascending) to new_size and changes nothing else; when no order with the
\* id rests on that side the book is unchanged; neither case raises
\* (violated: a price in the event that differs from the order's price
\* fails the assert of line 280).
C14_ResizeInPlace ==
  \A m \in ResizeMsgs : \A r \in {change(Book, m)} :
    LET id == m.order_id
        side == MatchedSide(Book, m)
        after == MatchedSide(r.bk, m)
        at == {p \in DOMAIN side : HasId(side[p], id)}
    IN /\ ~r.raised
       /\ r.bk.price_dict = price_dict
       /\ m.side = "buy" => r.bk.asks = asks
       /\ m.side = "sell" => r.bk.bids = bids
       /\ at = {} => r.bk = Book
       /\ at # {} =>
            LET p == Min(at)
                k == FirstIndex(side[p], id)
            IN after = SetItem(side, p,
                         [side[p] EXCEPT ![k].size = Decimal(m.new_size)])

\* C18: a change that is the next event and carries no new_size is skipped:
\* on_message raises nothing, leaves the levels, price_dict and the ticker
\* as they were, and advances the stored sequence to the event's, so that
\* the event after it is the next one.
C18_ChangeWithoutSizeSkipped ==
  sequence \in 0..MaxSeq =>
    \A m \in {b \in Bodies : b.type = "change" /\ b.new_size = Absent} :
      \A r \in {on_message(State, [m EXCEPT !.sequence = sequence + 1],
                           NoFetch)} :
        /\ r.kind = "applied"
        /\ r.handler = "change"
        /\ r.loads = 0
        /\ r.bk = Book
        /\ r.ticker = ticker
        /\ r.sequence = sequence + 1
        /\ Classify(r.sequence, sequence + 2) = "next"

\* a change without new_size was the second event applied to the book of the
\* snapshot taken at sequence 0: the stored sequence is the event's
C18_Witness ==
  /\ outcome.kind = "applied"
  /\ "new_size_missing" \in outcome.log
  /\ since = {1, 2}
  /\ sequence = 2
  /\ DOMAIN price_dict # {}

\* C19: when remove is called for an id that price_dict holds at a price
\* other than the one the event claims, the id is stripped from the level at
\* the indexed price on the side the event names (the level is deleted when
\* nothing is left), every other level, the one at the claimed price among
\* them, and the other side are untouched, the index entry is deleted, and
\* remove returns whether the order was in the level at the indexed price.
C19_IndexedPriceWins ==
  \A m \in DoneMsgs : \A r \in {remove(Book, m)} :
    LET id == m.order_id
        side == MatchedSide(Book, m)
        after == MatchedSide(r.bk, m)
    IN (id \in DOMAIN price_dict /\ Decimal(m.price) # price_dict[id]) =>
         LET q == price_dict[id]
             rested == q \in DOMAIN side /\ HasId(side[q], id)
             rest == IF q \in DOMAIN side
                     THEN SelectSeq(side[q], LAMBDA o : o.id # id)
                     ELSE <<>>
         IN /\ r.found = rested
            /\ ~r.raised
            /\ "price_mismatch" \in r.log
            /\ r.bk.price_dict = DelItem(price_dict, id)
            /\ DOMAIN after = IF rest = <<>> THEN (DOMAIN side) \ {q}
                              ELSE DOMAIN side
            /\ rest # <<>> => after[q] = rest
            /\ \A x \in DOMAIN side \ {q} : after[x] = side[x]
            /\ m.side = "buy" => r.bk.asks = asks
            /\ m.side = "sell" => r.bk.bids = bids

\* a done event claiming the price 2 for bid 1, which the index holds at 1,
\* has stripped bid 1 from the level at 1 of the snapshot taken at sequence
\* 0 and left bids 2 and 3 there
C19_Witness ==
  /\ outcome.kind = "applied"
  /\ outcome.handler = "remove"
  /\ "price_mismatch" \in outcome.log
  /\ applied = {1}
  /\ DOMAIN bids = {1}
  /\ LevelIds(bids[1]) = <<2, 3>>
  /\ DOMAIN price_dict = {2, 3}

\* C20: whenever remove returns found = false, the levels and price_dict are
\* what they were before the call (violated: the index entry of an id that
\* rests on the other side is deleted before the levels are searched).
C20_NotFoundChangesNothing ==
  \A m \in DoneMsgs : \A r \in {remove(Book, m)} :
    ~r.found => r.bk = Book

\* C15: get_bid answers the largest bid price and get_ask the smallest ask
\* price, and on a side with no level they answer no price without raising
\* (violated: peekitem raises IndexError on an empty side, as after the
\* open, match and done of the only bid).
C15_BestPriceOrEmpty ==
  /\ answer.query = "get_bid" =>
       /\ ~answer.raised
       /\ answer.value = IF DOMAIN bids = {} THEN NoPrice
                         ELSE Max(DOMAIN bids)
  /\ answer.query = "get_ask" =>
       /\ ~answer.raised
       /\ answer.value = IF DOMAIN asks = {} THEN NoPrice
                         ELSE Min(DOMAIN asks)

\* what get_current_book returns for a whole book with its sequence
Whole(bk, seq) ==
  [at |-> "returned", sequence |-> seq, asks |-> Export(bk.asks),
   bids |-> Export(bk.bids)]

\* C16: a get_current_book that runs beside reset_book returns a whole book
\* with its own sequence: the book as constructed, or the book of one
\* snapshot with that snapshot's sequence, and at no moment does price_dict
\* hold an id that is in no level (violated: the reader sees the emptied or
\* partly refilled levels, or the old sequence with the new levels, and
\* price_dict keeps the old ids until the last line of reset_book).
C16_QueriesSeeWholeBook ==
  /\ view.at = "returned" =>
       \/ view = Whole([asks |-> EmptyDict, bids |-> EmptyDict], Uninitialized)
       \/ \E res \in Snapshots : view = Whole(SnapshotBook(res), res.sequence)
  /\ DOMAIN price_dict \subseteq RestingIds

\* C17: on_message offers every message to the recorder before it looks at
\* the sequence, and when the write raises the message is classified and
\* applied all the same: the levels, price_dict and the stored sequence are
\* what they are with no recorder (violated: the error of pickle.dump
\* escapes on_message before line 77).
C17_SinkNeverBlocks ==
  sequence <= MaxSeq =>
    \A body \in QueryBodies : \A res \in Snapshots : \A ok \in BOOLEAN :
      LET message == [body EXCEPT !.sequence = sequence + 1]
          l == on_message_logged(State, message, res, log_to, ok)
          plain == on_message(State, message, res)
      IN /\ l.offered = log_to
         /\ l.result.kind # "raised" \/ plain.kind = "raised"
         /\ l.result.bk = plain.bk
         /\ l.result.sequence = plain.sequence

====
